---- MODULE Spec2Model ----
(***************************************************************************)
(* micro-alloc: memory resources over a caller supplied byte buffer.       *)
(*                                                                         *)
(* The buffer is modelled word by word: mem maps every word address of an  *)
(* arena (the caller's buffer plus the bytes around it) to the value       *)
(* stored there.  The engines are translated statement by statement from   *)
(* include/micro-alloc/*.h; every malloc/free is one action.               *)
(*                                                                         *)
(* uptr is modelled with UptrBits bits (instead of 64) so that the bit     *)
(* operations of memory_resource::align_up/align_down and the size|status  *)
(* packing can be computed as the code computes them.                      *)
(***************************************************************************)
EXTENDS Integers, Naturals, Sequences, FiniteSets, Bags, TLC

\* ------------------------------------------------------------------ bounds
\* number of bits of the modelled uptr
UptrBits == 9
\* address of the caller's buffer and its length in bytes
Base == 64
RegionSize == 200
\* bytes of the arena that follow the caller's buffer
ArenaSlack == 32
\* payload sizes the modelled callers request
ReqSmall == 12
ReqMid == 56
ReqBig == 80
\* number of calls made on one engine
MaxOps == 8

\* --------------------------------------------------------- program constants
\* sizeof(void *) == sizeof(uptr)
PS == 8
\* nullptr
nullptr == 0

UptrMod == 2 ^ UptrBits

\* ------------------------------------------------------ unsigned arithmetic
Wrap(x) == x % UptrMod

\* a & b, bit by bit
RECURSIVE BitAndN(_, _, _)
BitAndN(a, b, n) ==
    IF n = 0 \/ a = 0 \/ b = 0 THEN 0
    ELSE (IF a % 2 = 1 /\ b % 2 = 1 THEN 1 ELSE 0) + 2 * BitAndN(a \div 2, b \div 2, n - 1)

BitAnd(a, b) == BitAndN(a, b, UptrBits)
\* a | b and a ^ b, from a + b = (a | b) + (a & b) = (a ^ b) + 2 * (a & b)
BitOr(a, b) == a + b - BitAnd(a, b)
BitXor(a, b) == a + b - 2 * BitAnd(a, b)
\* a & ~m, from a = (a & m) + (a & ~m)
BitClear(a, m) == a - BitAnd(a, m)

\* memory_resource helpers
max(a, b) == IF a > b THEN a ELSE b
is_pow_2(v) == v # 0 /\ BitAnd(v, Wrap(v - 1)) = 0
align_up2(address, al) == BitClear(Wrap(address + Wrap(al - 1)), Wrap(al - 1))
align_down2(address, al) == BitClear(address, Wrap(al - 1))


\* ------------------------------------------------------------------- state
VARIABLES
    mem,              \* word address -> stored word, for the whole arena
    _ptr,             \* start of the caller's buffer
    _size,            \* its length in bytes
    alignment,        \* memory_resource::alignment
    _is_valid,        \* memory_resource::_is_valid
    _type_id,         \* memory_resource::_type_id: 1 linear, 2 dynamic, 3 pool, 4 stack
    _block_size,      \* pool_memory::_block_size
    _blocks_count,    \* pool_memory::_blocks_count
    _free_blocks_count,           \* pool_memory::_free_blocks_count
    _guard_against_double_free,   \* pool_memory::_guard_against_double_free
    _free_list_root,  \* dynamic_memory::_free_list_root
    _allocations,     \* dynamic_memory::_allocations
    _current_block_end,   \* stack_memory::_current_block_end
    _current_ptr,     \* linear_memory::_current_ptr
    oob,              \* some write of the engine landed outside [aligned_base, aligned_end)
    hung,             \* a list walk of the engine did not terminate
    live,             \* the caller's live allocations: [p |-> address, n |-> requested bytes]
    last,             \* the last call made: [op, arg, ret] and what it did
    dead,             \* addresses malloc returned that were freed and not returned again
    lifo,             \* the caller's live allocations in the order malloc returned them
    hist,             \* shape of the call history since construction
    ops               \* number of calls made so far

vars == <<mem, _ptr, _size, alignment, _is_valid, _type_id, _block_size, _blocks_count,
          _free_blocks_count, _guard_against_double_free, _free_list_root, _allocations,
          _current_block_end, _current_ptr, oob, hung, live, dead, lifo, last, hist, ops>>

\* what no call changes after construction
config == <<_ptr, _size, alignment, _is_valid, _type_id, _block_size, _blocks_count,
            _guard_against_double_free>>

\* what the dynamic and the pool engine do not have
stack_linear == <<_current_block_end, _current_ptr, lifo>>

ArenaEnd == Base + RegionSize + ArenaSlack
Arena == {a \in 0..ArenaEnd : a % PS = 0}

align_up(address) == align_up2(address, alignment)
align_down(address) == align_down2(address, alignment)
is_aligned(address) == align_down(address) = address
is_alignment_pow_2 == is_pow_2(alignment)

start_aligned_address == align_up(_ptr)
end_aligned_address == align_down(Wrap(_ptr + _size))
InRegion(a) == start_aligned_address <= a /\ a < end_aligned_address

\* The engine's mutable data while one call runs.
Machine == [mem |-> mem, root |-> _free_list_root, alloc |-> _allocations,
            oob |-> oob, hung |-> hung,
            lo |-> start_aligned_address, hi |-> end_aligned_address]

Rd(s, a) == IF a \in DOMAIN s.mem THEN s.mem[a] ELSE 0
Wr(s, a, v) ==
    [s EXCEPT !.mem = IF a \in DOMAIN @ THEN [@ EXCEPT ![a] = v] ELSE @,
              !.oob = @ \/ ~(s.lo <= a /\ a < s.hi)]

\* try_throw() on the way out of a call, r being what the call returns in a
\* build without MICRO_ALLOC_ENABLE_THROW: with the switch on the call throws
try_throw(r) == [signal |-> TRUE] @@ r
\* whether the call that gave r has passed through try_throw()
Signal(r) == "signal" \in DOMAIN r /\ r.signal

\* ---------------------------------------------------------- dynamic_memory
\* base_header_t
hdr_size(v) == BitClear(v, 1)
hdr_is_allocated(v) == BitAnd(v, 1) = 1
hdr_set_size_and_status(size, status) == BitOr(size, IF status THEN 1 ELSE 0)
hdr_toggle_allocated(v) == BitXor(v, 1)

size_of_free_block_header == 3 * PS
size_of_block_base_header == PS
size_of_block_footer == PS

\* header_t fields
prev_of(h) == Wrap(h + PS)
next_of(h) == Wrap(h + 2 * PS)

\* h->prev = v and h->next = v
set_prev(s, h, v) == Wr(s, prev_of(h), v)
set_next(s, h, v) == Wr(s, next_of(h), v)
\* to->prev = from->prev and to->next = from->next
copy_prev(s, to, from) == set_prev(s, to, Rd(s, prev_of(from)))
copy_next(s, to, from) == set_next(s, to, Rd(s, next_of(from)))
\* if (h->next) h->next->prev = v
set_prev_of_next(s, h, v) ==
    IF Rd(s, next_of(h)) # nullptr THEN set_prev(s, Rd(s, next_of(h)), v) ELSE s
\* if (h->prev) h->prev->next = v
set_next_of_prev(s, h, v) ==
    IF Rd(s, prev_of(h)) # nullptr THEN set_next(s, Rd(s, prev_of(h)), v) ELSE s

\* block_t
block_header(b) == b.aligned_from
block_footer(b) == Wrap(b.aligned_to - align_up(size_of_block_footer))
block_t_size(s, b) == hdr_size(Rd(s, block_header(b)))
block_set_size_and_status(s, b, size, status) ==
    LET size_and_status == BitOr(size, IF status THEN 1 ELSE 0)
    IN  Wr(Wr(s, block_header(b), hdr_set_size_and_status(size_and_status, status)),
           block_footer(b), hdr_set_size_and_status(size_and_status, status))
\* a status test that takes every block for an allocated one
block_is_allocated_always(s, b) == TRUE
block_is_allocated(s, b) == hdr_is_allocated(Rd(s, block_header(b)))
\* the word at a is a base_header_t: toggle_allocated()
toggle_allocated_at(s, a) == Wr(s, a, hdr_toggle_allocated(Rd(s, a)))
block_toggle_allocated(s, b) ==
    toggle_allocated_at(toggle_allocated_at(s, block_header(b)), block_footer(b))
\* a sanity test that every pair of words passes
block_sanity_test_always(s, b) == TRUE
block_sanity_test(s, b) == Rd(s, block_footer(b)) = Rd(s, block_header(b))

\* lines 128-131 of create_free_block, result being the block b
init_free_block(s, b) ==
    [s |-> set_next(set_prev(block_set_size_and_status(
                                 s, b, Wrap(b.aligned_to - b.aligned_from), FALSE),
                             block_header(b), nullptr),
                    block_header(b), nullptr),
     b |-> b]
create_free_block(s, from, to) ==
    init_free_block(s, [aligned_from |-> align_up(from), aligned_to |-> align_down(to)])

get_block(s, from) ==
    [aligned_from |-> align_up(from),
     aligned_to |-> Wrap(align_up(from) + hdr_size(Rd(s, align_up(from))))]

minimal_size_of_any_block ==
    Wrap(align_up(size_of_free_block_header) + align_up(size_of_block_footer))
aligned_base_header_and_footer ==
    Wrap(align_up(size_of_block_base_header) + align_up(size_of_block_footer))
effective_payload_size_of_block(s, block) ==
    Wrap(hdr_size(Rd(s, block)) - aligned_base_header_and_footer)
compute_required_block_size_by_payload_size(payload_size) ==
    LET allocated_block == Wrap(align_up(size_of_block_base_header) +
                                align_up(size_of_block_footer) + align_up(payload_size))
    IN  IF minimal_size_of_any_block > allocated_block
        THEN minimal_size_of_any_block ELSE allocated_block

\* lines 191-194 of split: block_1 and block_2 are linked to each other and to the
\* old neighbours of the block; block_next->prev is not written
split_reconnect(c2, h1, block_prev, block_next) ==
    [s |-> set_next(set_prev(set_next(set_prev(c2.s, h1, block_prev),
                                      h1, block_header(c2.b)),
                             block_header(c2.b), h1),
                    block_header(c2.b), block_next),
     h |-> h1, split |-> TRUE]
\* lines 187-189 of split: the right free block, c1 being block_1
split_right(c1, s_b1, old_size, block_prev, block_next) ==
    split_reconnect(create_free_block(c1.s, c1.b.aligned_to, Wrap(s_b1 + old_size)),
                    block_header(c1.b), block_prev, block_next)
\* a split that asks for a right remainder of the minimal block size only
split_without_alignment_slack(s, block, payload_size) ==
    LET required_allocated_block_size ==
            compute_required_block_size_by_payload_size(align_up(payload_size))
        has_space == Wrap(required_allocated_block_size + minimal_size_of_any_block)
                        <= hdr_size(Rd(s, block))
    IN  IF has_space
        THEN split_right(create_free_block(s, block,
                                           Wrap(block + required_allocated_block_size)),
                         block, hdr_size(Rd(s, block)),
                         Rd(s, prev_of(block)), Rd(s, next_of(block)))
        ELSE [s |-> s, h |-> block, split |-> FALSE]
\* lines 177-201
split_free_block_to_two_by_payload_size(s, block, payload_size) ==
    LET required_allocated_block_size ==
            compute_required_block_size_by_payload_size(align_up(payload_size))
        required_free_block_size == Wrap(minimal_size_of_any_block + alignment)
        has_space == Wrap(required_allocated_block_size + required_free_block_size)
                        <= hdr_size(Rd(s, block))
    IN  IF has_space
        THEN split_right(create_free_block(s, block,
                                           Wrap(block + required_allocated_block_size)),
                         block, hdr_size(Rd(s, block)),
                         Rd(s, prev_of(block)), Rd(s, next_of(block)))
        ELSE [s |-> s, h |-> block, split |-> FALSE]

\* the three places that take a node h out of the doubly linked free list
\* if (!is_resolved_block_first) h->prev->next = h->next
unlink_prev(s, h, is_resolved_block_first) ==
    IF ~is_resolved_block_first
    THEN set_next(s, Rd(s, prev_of(h)), Rd(s, next_of(h))) ELSE s
\* if (!is_resolved_block_last) h->next->prev = h->prev
unlink_next(s, h, is_resolved_block_last) ==
    IF ~is_resolved_block_last
    THEN set_prev(s, Rd(s, next_of(h)), Rd(s, prev_of(h))) ELSE s
\* if (is_resolved_block_first) _free_list_root = h->next
unlink_root(s, h, is_resolved_block_first) ==
    IF is_resolved_block_first THEN [s EXCEPT !.root = Rd(s, next_of(h))] ELSE s
unlink(s, h) ==
    LET is_resolved_block_first == Rd(s, prev_of(h)) = nullptr
        is_resolved_block_last == Rd(s, next_of(h)) = nullptr
    IN  unlink_root(unlink_next(unlink_prev(s, h, is_resolved_block_first),
                                h, is_resolved_block_last),
                    h, is_resolved_block_first)

\* the best-fit scan of malloc; visited are the nodes the loop has been at: the
\* memory does not change during the scan, so a node met twice is met for ever
RECURSIVE best_fit_scan(_, _, _, _, _)
best_fit_scan(s, size_bytes, current_node, best_node, visited) ==
    IF current_node = nullptr THEN [best |-> best_node, hung |-> FALSE]
    ELSE IF current_node \in visited THEN [best |-> best_node, hung |-> TRUE]
    ELSE IF /\ size_bytes <= effective_payload_size_of_block(s, current_node)
            /\ (best_node = nullptr \/
                hdr_size(Rd(s, current_node)) < hdr_size(Rd(s, best_node)))
    THEN best_fit_scan(s, size_bytes, Rd(s, next_of(current_node)), current_node,
                       visited \cup {current_node})
    ELSE best_fit_scan(s, size_bytes, Rd(s, next_of(current_node)), best_node,
                       visited \cup {current_node})

\* line 307: resolved_header->prev = resolved_header->next = nullptr
malloc_clear_links(s, resolved_header) ==
    set_prev(set_next(s, resolved_header, nullptr), resolved_header, nullptr)
\* line 308: get_block(resolved_header).toggle_allocated()
malloc_mark(s, resolved_header) == block_toggle_allocated(s, get_block(s, resolved_header))
\* lines 311-320: the address handed out and the accounting
malloc_return(s, resolved_header) ==
    [s |-> [s EXCEPT !.alloc = Wrap(@ + hdr_size(Rd(s, resolved_header)))],
     ret |-> Wrap(resolved_header + align_up(size_of_block_base_header))]
\* lines 296-320, sp being what split returned
malloc_take(sp) ==
    malloc_return(malloc_mark(malloc_clear_links(unlink(sp.s, sp.h), sp.h), sp.h), sp.h)
\* lines 282-320, scan being the outcome of the best-fit scan
malloc_found(s, size_bytes, scan) ==
    IF scan.hung THEN [s |-> [s EXCEPT !.hung = TRUE], ret |-> nullptr]
    ELSE IF scan.best = nullptr THEN try_throw([s |-> s, ret |-> nullptr])
    ELSE malloc_take(split_free_block_to_two_by_payload_size(s, scan.best, size_bytes))
dynamic_malloc(s, size_bytes) ==
    malloc_found(s, align_up(size_bytes),
                 best_fit_scan(s, align_up(size_bytes), s.root, nullptr, {}))

\* the ordered-insert search of free; visited as in the scan of malloc
RECURSIVE insert_search(_, _, _, _, _)
insert_search(s, current_node, current_node_before, from, visited) ==
    IF ~(current_node # nullptr /\ current_node < from)
    THEN [node |-> current_node, before |-> current_node_before, hung |-> FALSE]
    ELSE IF current_node \in visited
    THEN [node |-> current_node, before |-> current_node_before, hung |-> TRUE]
    ELSE insert_search(s, Rd(s, next_of(current_node)), current_node, from,
                       visited \cup {current_node})

\* lines 438-442: insert nb to the right of the hint
insert_right_of_hint(s, nb, left_hint_node) ==
    set_next(set_prev_of_next(set_prev(copy_next(s, nb, left_hint_node),
                                       nb, left_hint_node),
                              left_hint_node, nb),
             left_hint_node, nb)
\* lines 454-455: the hint was the root
replace_root(s, right_hint_node, nb) ==
    IF s.root = right_hint_node THEN [s EXCEPT !.root = nb] ELSE s
\* lines 447-455: insert nb to the left of the hint
insert_left_of_hint(s, nb, right_hint_node) ==
    replace_root(set_prev(set_next_of_prev(copy_prev(set_next(s, nb, right_hint_node),
                                                     nb, right_hint_node),
                                           right_hint_node, nb),
                          right_hint_node, nb),
                 right_hint_node, nb)
\* lines 473-475: the search reached the end, nb becomes the last node
insert_last(s, nb, current_node_before) ==
    set_next(set_prev(set_next(s, current_node_before, nb), nb, current_node_before),
             nb, nullptr)
\* lines 479-486: if (current_node->prev) current_node->prev->next = nb, else nb is the root
set_next_of_prev_or_root(s, current_node, nb) ==
    IF Rd(s, prev_of(current_node)) # nullptr
    THEN set_next(s, Rd(s, prev_of(current_node)), nb)
    ELSE [s EXCEPT !.root = nb]
\* lines 477-487: insert nb to the left of the node the search stopped at
insert_left_of_node(s, nb, current_node) ==
    set_prev(set_next_of_prev_or_root(set_next(copy_prev(s, nb, current_node),
                                               nb, current_node),
                                      current_node, nb),
             current_node, nb)
\* lines 459-489: search the list in ascending address order
insert_by_search(s, nb, srch) ==
    IF srch.hung THEN [s EXCEPT !.hung = TRUE]
    ELSE IF srch.node = nullptr THEN insert_last(s, nb, srch.before)
    ELSE insert_left_of_node(s, nb, srch.node)

\* lines 429-489: put the merged block into the address ordered list
free_insert(s, nb, left_hint_node, right_hint_node, is_free_list_empty) ==
    IF is_free_list_empty THEN [s EXCEPT !.root = nb]
    ELSE IF left_hint_node # nullptr THEN insert_right_of_hint(s, nb, left_hint_node)
    ELSE IF right_hint_node # nullptr THEN insert_left_of_hint(s, nb, right_hint_node)
    ELSE insert_by_search(s, nb, insert_search(s, s.root, s.root, nb, {}))

\* lines 391-392, s being the state after the left block left the list
coalesced_left(s, left_block) ==
    [s |-> s, most |-> left_block.aligned_from,
     hint |-> Rd(s, prev_of(block_header(left_block)))]
\* lines 376-393
free_coalesce_left_block(s, block, left_block) ==
    IF ~block_is_allocated(s, left_block)
    THEN coalesced_left(unlink(s, block_header(left_block)), left_block)
    ELSE [s |-> s, most |-> block.aligned_from, hint |-> nullptr]
\* lines 365-394: merge with the left neighbour when it is marked free
free_coalesce_left(s, block) ==
    LET is_first_block == align_up(_ptr) = block.aligned_from
        left_block_footer_address == Wrap(block.aligned_from - align_up(size_of_block_footer))
        left_block_address ==
            Wrap(block.aligned_from - hdr_size(Rd(s, left_block_footer_address)))
    IN  IF ~is_first_block
        THEN free_coalesce_left_block(s, block, get_block(s, left_block_address))
        ELSE [s |-> s, most |-> block.aligned_from, hint |-> nullptr]

\* lines 414-415, s being the state after the right block left the list
coalesced_right(s, right_block) ==
    [s |-> s, most |-> right_block.aligned_to,
     hint |-> Rd(s, next_of(block_header(right_block)))]
\* lines 399-416
free_coalesce_right_block(s, block, right_block) ==
    IF ~block_is_allocated(s, right_block)
    THEN coalesced_right(unlink(s, block_header(right_block)), right_block)
    ELSE [s |-> s, most |-> block.aligned_to, hint |-> nullptr]

\* a free that never merges with its right neighbour
free_coalesce_right_never(s, block) ==
    [s |-> s, most |-> block.aligned_to, hint |-> nullptr]

\* lines 366-417: merge with the right neighbour when it is marked free
free_coalesce_right(s, block) ==
    LET is_last_block == align_down(Wrap(_ptr + _size)) = block.aligned_to
    IN  IF ~is_last_block
        THEN free_coalesce_right_block(s, block, get_block(s, block.aligned_to))
        ELSE [s |-> s, most |-> block.aligned_to, hint |-> nullptr]

\* lines 429-489, c being the new block
free_link(c, left_hint_node, right_hint_node, is_free_list_empty) ==
    free_insert(c.s, block_header(c.b), left_hint_node, right_hint_node, is_free_list_empty)
\* lines 419-489, L and R being the outcomes of the two merges
free_create(L, R) ==
    free_link(create_free_block(R.s, L.most, R.most), L.hint, R.hint, R.s.root = nullptr)
\* lines 396-489, L being the outcome of the left merge
free_right(L, block) == free_create(L, free_coalesce_right(L.s, block))
\* lines 362-363: block.toggle_allocated(); _allocations -= block.size()
free_account(s, block) == [s EXCEPT !.alloc = Wrap(@ - block_t_size(s, block))]
free_mark(s, block) == free_account(block_toggle_allocated(s, block), block)
\* lines 362-489
free_release(s, block) == free_right(free_coalesce_left(free_mark(s, block), block), block)

dynamic_free(s, pointer) ==
    LET address == pointer
        header_address == Wrap(address - align_up(size_of_block_base_header))
        block == get_block(s, header_address)
    IN  IF ~is_aligned(address) THEN try_throw([s |-> s, ret |-> FALSE, why |-> "misaligned"])
        ELSE IF ~block_sanity_test(s, block)
        THEN try_throw([s |-> s, ret |-> FALSE, why |-> "not_a_block"])
        ELSE IF ~block_is_allocated(s, block)
        THEN try_throw([s |-> s, ret |-> FALSE, why |-> "marked_free"])
        ELSE [s |-> free_release(s, block), ret |-> TRUE, why |-> "freed"]

dynamic_available_size ==
    Wrap(Wrap(end_aligned_address - start_aligned_address) - _allocations)

\* ------------------------------------------------------- callers and ghosts
\* buffers, alignments and request sizes the modelled callers use
Bases == {Base}
Sizes == {RegionSize}
Alignments == {PS}
\* the words the buffer holds at construction and the callers store afterwards
Fills == {0}
ReqSizes == {ReqSmall, ReqMid, ReqBig}

\* dynamic_memory::dynamic_memory(ptr, size_bytes, requested)
ConstructDynamic(ptr, size_bytes, requested) ==
    /\ _type_id = 2
    /\ _block_size = 0 /\ _blocks_count = 0 /\ _free_blocks_count = 0
    /\ _guard_against_double_free = FALSE
    /\ _ptr = ptr
    /\ _size = size_bytes
    /\ alignment = max(requested, PS)
    /\ hung = FALSE
    /\ \E fill \in Fills :
         LET s0 == [mem |-> [a \in Arena |-> fill], root |-> nullptr, alloc |-> 0,
                    oob |-> FALSE, hung |-> FALSE,
                    lo |-> start_aligned_address, hi |-> end_aligned_address]
             c == create_free_block(s0, _ptr, Wrap(_ptr + _size))
             is_memory_valid_1 == block_t_size(c.s, c.b) >= minimal_size_of_any_block
             is_memory_valid_3 == is_alignment_pow_2
             is_memory_valid == is_memory_valid_1 /\ is_memory_valid_3
         IN  /\ mem = c.s.mem
             /\ oob = c.s.oob
             /\ _free_list_root = IF is_memory_valid THEN block_header(c.b) ELSE nullptr
             /\ _is_valid = is_memory_valid
    /\ _allocations = 0
    /\ _current_block_end = 0 /\ _current_ptr = nullptr
    /\ live = EmptyBag
    /\ dead = {}
    /\ lifo = <<>>
    \* line 247: else try_throw()
    /\ last = [op |-> "ctor", arg |-> 0, ret |-> 0, why |-> "constructed",
               signal |-> ~_is_valid]
    /\ hist = [phase |-> "mallocs", full |-> FALSE]
    /\ ops = 0

InitDynamic ==
    \E ptr \in Bases, size_bytes \in Sizes, requested \in Alignments :
        ConstructDynamic(ptr, size_bytes, requested)

Commit(s) ==
    /\ mem' = s.mem
    /\ _free_list_root' = s.root
    /\ _allocations' = s.alloc
    /\ oob' = s.oob
    /\ hung' = s.hung
    /\ ops' = ops + 1
    /\ UNCHANGED <<config, _free_blocks_count, stack_linear>>

\* the caller's books after p = malloc(n) came back as r
MallocReturned(n, r, ok) ==
    /\ Commit(r.s)
    /\ last' = [signal |-> Signal(r), op |-> "malloc", arg |-> n, ret |-> r.ret,
                why |-> IF r.s.hung THEN "hung" ELSE IF ok THEN "allocated"
                        ELSE "out_of_memory"]
    /\ live' = IF ok THEN live (+) SetToBag({[p |-> r.ret, n |-> n]}) ELSE live
    /\ dead' = IF ok THEN dead \ {r.ret} ELSE dead
    /\ hist' = IF hist.phase = "mallocs"
               THEN [phase |-> "mallocs", full |-> hist.full \/ ~ok]
               ELSE [hist EXCEPT !.phase = "mixed"]
MallocResult(n, r) == MallocReturned(n, r, r.ret # nullptr /\ ~r.s.hung)

\* p = malloc(n)
Malloc(n) ==
    /\ ~hung /\ ops < MaxOps
    /\ MallocResult(n, dynamic_malloc(Machine, n))

\* the caller's books after free(l.p) came back as r
FreeReturned(l, r, live1) ==
    /\ Commit(r.s)
    /\ last' = [signal |-> Signal(r), op |-> "free", arg |-> l.p, ret |-> r.ret,
                why |-> IF r.s.hung THEN "hung" ELSE r.why]
    /\ live' = live1
    /\ dead' = IF r.ret /\ ~r.s.hung /\ l.p \notin {x.p : x \in BagToSet(live1)}
               THEN dead \cup {l.p} ELSE dead
    /\ hist' = IF hist.phase = "mixed" THEN hist ELSE [hist EXCEPT !.phase = "frees"]
FreeResult(l, r) ==
    FreeReturned(l, r, IF r.ret /\ ~r.s.hung THEN live (-) SetToBag({l}) ELSE live)

\* free(p), p being the address of l, one of the caller's live allocations
Free(l) ==
    /\ ~hung /\ ops < MaxOps
    /\ FreeResult(l, dynamic_free(Machine, l.p))

\* the caller's books after a second free(p) came back as r
FreeDeadResult(p, r) ==
    /\ Commit(r.s)
    /\ last' = [signal |-> Signal(r), op |-> "free_dead", arg |-> p, ret |-> r.ret,
                why |-> IF r.s.hung THEN "hung" ELSE r.why]
    /\ UNCHANGED <<live, dead>>
    /\ hist' = [hist EXCEPT !.phase = "mixed"]

\* free(p), p having been returned by malloc and freed since
FreeDead(p) ==
    /\ ~hung /\ ops < MaxOps
    /\ FreeDeadResult(p, dynamic_free(Machine, p))

DoMalloc == \E n \in ReqSizes : Malloc(n)
DoFree == \E l \in BagToSet(live) : Free(l)
DoFreeDead == \E p \in dead : FreeDead(p)

\* the caller stores one word of Fills in every whole word of its live allocation l
PayloadWords(l) == {a \in Arena : l.p <= a /\ a + PS <= l.p + l.n}
Fill(l) ==
    /\ ~hung
    /\ \E w \in Fills :
         /\ \E a \in PayloadWords(l) : mem[a] # w
         /\ mem' = [a \in Arena |-> IF a \in PayloadWords(l) THEN w ELSE mem[a]]
    /\ last' = [signal |-> FALSE, op |-> "fill", arg |-> l.p, ret |-> 0, why |-> "stored"]
    /\ UNCHANGED <<config, _free_blocks_count, _free_list_root, _allocations,
                   oob, hung, live, dead, hist, ops, stack_linear>>

DoFill == \E l \in BagToSet(live) : Fill(l)

\* callers that free only what they hold and write only to what they hold
Next == DoMalloc \/ DoFree \/ DoFill
Spec == InitDynamic /\ [][Next]_vars

\* callers that also free a second time
NextMisuse == DoMalloc \/ DoFree \/ DoFill \/ DoFreeDead
SpecMisuse == InitDynamic /\ [][NextMisuse]_vars

\* callers that hand free() addresses that malloc never returned
\* number of calls such callers make
WildMaxOps == 5
\* the word of an allocated block of minimal size, as a caller's data may hold it
TagWord == hdr_set_size_and_status(minimal_size_of_any_block, TRUE)

\* free() has just taken such an address for a block: the caller's run ends there
WildFreeAccepted == last.op = "free_dead" /\ last.ret = TRUE

\* the caller stores TagWord in the first word of its live allocation l
StoreTag(l) ==
    /\ ~hung /\ ops < WildMaxOps /\ ~WildFreeAccepted
    /\ mem[l.p] # TagWord
    /\ mem' = [mem EXCEPT ![l.p] = TagWord]
    /\ last' = [signal |-> FALSE, op |-> "fill", arg |-> l.p, ret |-> 0, why |-> "stored"]
    /\ UNCHANGED <<config, _free_blocks_count, _free_list_root, _allocations,
                   oob, hung, live, dead, hist, ops, stack_linear>>

\* addresses inside the payload of l: one in the middle of its first word, one
\* at its second word
WildAddresses(l) == {l.p + PS \div 2, l.p + PS}
\* the words free(p) reads before it accepts p lie in the arena
ReadsInArena(p) ==
    is_aligned(p) =>
        LET block == get_block(Machine, Wrap(p - align_up(size_of_block_base_header)))
        IN  block_header(block) \in Arena /\ block_footer(block) \in Arena

\* free(p), p being an address inside one of the caller's live allocations
FreeWild(p) ==
    /\ ~hung /\ ops < WildMaxOps /\ ~WildFreeAccepted /\ ReadsInArena(p)
    /\ FreeDeadResult(p, dynamic_free(Machine, p))

DoWildMalloc == ops < WildMaxOps /\ ~WildFreeAccepted /\ DoMalloc
DoWildFree == ops < WildMaxOps /\ ~WildFreeAccepted /\ DoFree
DoStoreTag == \E l \in BagToSet(live) : StoreTag(l)
DoFreeWild == \E l \in BagToSet(live) : \E p \in WildAddresses(l) : FreeWild(p)

NextWild == DoWildMalloc \/ DoWildFree \/ DoStoreTag \/ DoFreeWild
SpecWild == InitDynamic /\ [][NextWild]_vars

\* -------------------------------------------------------------- pool_memory
\* bounds of the modelled pools: buffer length, requested block size
PoolRegionSize == 64
PoolBlockSize == 16
\* number of calls made on one pool
PoolMaxOps == 5

\* header_t of a pool slot is its next pointer, at offset 0
pool_minimal_size_of_any_block == align_up(PS)
correct_block_size(block_size) ==
    IF align_up(block_size) < pool_minimal_size_of_any_block
    THEN pool_minimal_size_of_any_block ELSE align_up(block_size)
compute_blocks_count(bs) ==
    Wrap(align_down(Wrap(_ptr + _size)) - align_up(_ptr)) \div bs

\* the loop of reset: ix runs from 0 while ix < blocks - 1; of a loop that
\* runs out of the arena the writes inside the arena and the first one
\* outside are kept
RECURSIVE pool_reset_loop(_, _, _, _, _)
pool_reset_loop(s, current, bs, ix, bound) ==
    IF ~(ix < bound) THEN [s |-> s, current |-> current]
    ELSE IF current \notin Arena
    THEN [s |-> Wr(s, current, Wrap(current + bs)), current |-> Wrap(current + bs)]
    ELSE pool_reset_loop(Wr(s, current, Wrap(current + bs)), Wrap(current + bs), bs,
                         ix + 1, bound)

\* a reset whose loop stops one slot early: the last slot is left out of the list
pool_reset_one_slot_short(s, block_size) ==
    LET bs == correct_block_size(block_size)
        blocks == compute_blocks_count(bs)
        current == align_up(_ptr)
        lp == pool_reset_loop(s, current, bs, 0, Wrap(blocks - 2))
    IN  [s |-> [Wr(lp.s, lp.current, nullptr) EXCEPT !.root = current],
         bs |-> bs, blocks |-> blocks]
\* lines 136-152
pool_reset(s, block_size) ==
    LET bs == correct_block_size(block_size)
        blocks == compute_blocks_count(bs)
        current == align_up(_ptr)
        lp == pool_reset_loop(s, current, bs, 0, Wrap(blocks - 1))
    IN  [s |-> [Wr(lp.s, lp.current, nullptr) EXCEPT !.root = current],
         bs |-> bs, blocks |-> blocks]

pool_malloc(s, size_bytes_dont_matter) ==
    IF s.root = nullptr THEN try_throw([s |-> s, ret |-> nullptr])
    ELSE [s |-> [s EXCEPT !.root = Rd(s, s.root), !.free = Wrap(@ - 1)], ret |-> s.root]

\* a guard that never finds the address on the free list
pool_is_on_free_list_never(s, current, address, visited) ==
    [found |-> FALSE, hung |-> FALSE]

\* the guard's walk over the free list; visited as in the scan of dynamic malloc
RECURSIVE pool_is_on_free_list(_, _, _, _)
pool_is_on_free_list(s, current, address, visited) ==
    IF current = nullptr THEN [found |-> FALSE, hung |-> FALSE]
    ELSE IF current = address THEN [found |-> TRUE, hung |-> FALSE]
    ELSE IF current \in visited THEN [found |-> FALSE, hung |-> TRUE]
    ELSE pool_is_on_free_list(s, Rd(s, current), address, visited \cup {current})

pool_free(s, pointer) ==
    LET address == pointer
        min_range == align_up(_ptr)
        max_range == align_down(Wrap(_ptr + _size))
        is_in_range == address >= min_range /\ address < max_range
        is_address_block_aligned == Wrap(address - min_range) % _block_size = 0
        walk == pool_is_on_free_list(s, s.root, address, {})
        s1 == Wr(s, address, s.root)
    IN  IF ~is_in_range THEN try_throw([s |-> s, ret |-> FALSE, why |-> "out_of_range"])
        ELSE IF ~is_address_block_aligned
        THEN try_throw([s |-> s, ret |-> FALSE, why |-> "not_a_slot"])
        ELSE IF _guard_against_double_free /\ walk.hung
        THEN [s |-> [s EXCEPT !.hung = TRUE], ret |-> FALSE, why |-> "hung"]
        ELSE IF _guard_against_double_free /\ walk.found
        THEN try_throw([s |-> s, ret |-> FALSE, why |-> "already_free"])
        ELSE [s |-> [s1 EXCEPT !.root = address, !.free = Wrap(@ + 1)],
              ret |-> TRUE, why |-> "freed"]

pool_available_size == Wrap(_free_blocks_count * _block_size)

PoolMachine == [mem |-> mem, root |-> _free_list_root, free |-> _free_blocks_count,
                oob |-> oob, hung |-> hung,
                lo |-> start_aligned_address, hi |-> end_aligned_address]

\* the constructor calls reset on a region of less than two blocks in which
\* the blocks - 1 links of the loop, counted in uptr, do not fit
PoolResetLeavesArena ==
    /\ correct_block_size(PoolBlockSize) <= _size /\ is_alignment_pow_2
    /\ Wrap(compute_blocks_count(correct_block_size(PoolBlockSize)) - 1)
           * correct_block_size(PoolBlockSize) > ArenaEnd

\* buffer lengths of the modelled pools: a whole number of blocks, and one word more
PoolSizes == {PoolRegionSize, PoolRegionSize + PS}

\* pool_memory::pool_memory over the buffer of size_bytes bytes at ptr
ConstructPoolAt(ptr, size_bytes) ==
    /\ _type_id = 3
    /\ _ptr = ptr
    /\ _size = size_bytes
    /\ \E requested \in Alignments : alignment = max(requested, PS)
    /\ _guard_against_double_free \in BOOLEAN
    \* a loop of reset that runs out of the caller's arena may never come back
    /\ hung \in (IF PoolResetLeavesArena THEN BOOLEAN ELSE {FALSE})
    /\ _allocations = 0
    /\ \E fill \in Fills :
         LET s0 == [mem |-> [a \in Arena |-> fill], root |-> nullptr, free |-> 0,
                    oob |-> FALSE, hung |-> FALSE,
                    lo |-> start_aligned_address, hi |-> end_aligned_address]
             is_memory_valid_1 == correct_block_size(PoolBlockSize) <= _size
             is_memory_valid_3 == is_alignment_pow_2
             is_memory_valid == is_memory_valid_1 /\ is_memory_valid_3
             r == pool_reset(s0, PoolBlockSize)
         IN  /\ _is_valid = is_memory_valid
             /\ mem = IF is_memory_valid THEN r.s.mem ELSE s0.mem
             /\ oob = IF is_memory_valid THEN r.s.oob ELSE FALSE
             /\ _free_list_root = IF is_memory_valid THEN r.s.root ELSE nullptr
             /\ _block_size = IF is_memory_valid THEN r.bs ELSE 0
             /\ _blocks_count = IF is_memory_valid THEN r.blocks ELSE 0
             /\ _free_blocks_count = IF is_memory_valid THEN r.blocks ELSE 0
    /\ _current_block_end = 0 /\ _current_ptr = nullptr
    /\ live = EmptyBag
    /\ dead = {}
    /\ lifo = <<>>
    \* line 123: try_throw() is compiled only in a MICRO_ALLOC_DEBUG build
    /\ \E MICRO_ALLOC_DEBUG \in BOOLEAN :
         last = [op |-> "ctor", arg |-> 0, ret |-> 0, why |-> "constructed",
                 signal |-> MICRO_ALLOC_DEBUG /\ ~_is_valid]
    /\ hist = [phase |-> "mallocs", full |-> FALSE]
    /\ ops = 0

ConstructPool(size_bytes) == \E ptr \in Bases : ConstructPoolAt(ptr, size_bytes)
InitPool == \E size_bytes \in PoolSizes : ConstructPool(size_bytes)

PoolCommit(s) ==
    /\ mem' = s.mem
    /\ _free_list_root' = s.root
    /\ _free_blocks_count' = s.free
    /\ oob' = s.oob
    /\ hung' = s.hung
    /\ ops' = ops + 1
    /\ UNCHANGED <<config, _allocations, dead, hist, stack_linear>>

\* the caller's books after p = malloc(n) on the pool came back as r
PoolMallocResult(n, r) ==
    /\ PoolCommit(r.s)
    /\ last' = [signal |-> Signal(r), op |-> "malloc", arg |-> n, ret |-> r.ret,
                why |-> IF r.ret # nullptr THEN "allocated" ELSE "out_of_memory"]
    /\ live' = IF r.ret # nullptr
               THEN live (+) SetToBag({[p |-> r.ret, n |-> n]}) ELSE live

\* p = malloc(n) on the pool
PoolMalloc(n) ==
    /\ ~hung /\ ops < PoolMaxOps
    /\ PoolMallocResult(n, pool_malloc(PoolMachine, n))

\* the addresses the modelled callers pass to the pool's free
\* every slot, an address inside a slot, the end of the region and null
PoolFreeArgs ==
    {a \in Arena : InRegion(a) /\ (a - start_aligned_address) % _block_size = 0}
        \cup {start_aligned_address + PS, end_aligned_address, nullptr}

\* the caller's books after free(p) on the pool came back as r
PoolFreeResult(p, r, held) ==
    /\ PoolCommit(r.s)
    /\ last' = [signal |-> Signal(r), op |-> "free", arg |-> p, ret |-> r.ret, why |-> r.why]
    /\ live' = IF r.ret /\ held # {}
               THEN live (-) SetToBag({CHOOSE l \in held : TRUE}) ELSE live

\* free(p) on the pool, p being any address
PoolFree(p) ==
    /\ ~hung /\ ops < PoolMaxOps
    /\ PoolFreeResult(p, pool_free(PoolMachine, p), {l \in BagToSet(live) : l.p = p})

DoPoolMalloc == \E n \in {ReqSmall, ReqMid} : PoolMalloc(n)
DoPoolFree == \E p \in PoolFreeArgs : PoolFree(p)

NextPool == DoPoolMalloc \/ DoPoolFree
SpecPool == InitPool /\ [][NextPool]_vars

\* pools over a buffer of one block that starts one byte off the alignment:
\* size_bytes >= B, yet the aligned region holds no whole block
TinyPoolBases == {Base + 1}
TinyPoolSizes == {align_up2(PoolBlockSize, PS)}
InitPoolTiny ==
    \E ptr \in TinyPoolBases, size_bytes \in TinyPoolSizes : ConstructPoolAt(ptr, size_bytes)
SpecPoolTiny == InitPoolTiny /\ [][NextPool]_vars

\* ------------------------------------------------------------- stack_memory
\* bounds of the modelled stacks: buffer length, number of calls made on one stack
StackRegionSize == 96
StackMaxOps == 6

\* footer_t is one uptr: distance_to_prev_block_end
alignment_of_footer == PS
size_of_footer_t == PS

StackMachine == [mem |-> mem, cur |-> _current_block_end, oob |-> oob, hung |-> hung,
                 lo |-> start_aligned_address, hi |-> end_aligned_address]

stack_available_size(s) == Wrap(end_aligned_address - align_up(s.cur))

\* a push that stores the length of the new block alone in the footer
stack_push_block_length(s, start_of_footer, distance_to_prev_block_end) ==
    Wr([s EXCEPT !.cur = Wrap(@ + distance_to_prev_block_end)],
       start_of_footer, Wrap(start_of_footer + size_of_footer_t - align_up(s.cur)))
\* lines 149-151: the cursor moves and the footer is written
stack_push(s, start_of_footer, distance_to_prev_block_end) ==
    Wr([s EXCEPT !.cur = Wrap(@ + distance_to_prev_block_end)],
       start_of_footer, distance_to_prev_block_end)

\* a malloc without the test of line 130
stack_malloc_zero_accepted(s, size_bytes) ==
    LET new_block_start == align_up(s.cur)
        start_of_footer ==
            Wrap(new_block_start + align_up2(align_up(size_bytes), alignment_of_footer))
        distance_to_prev_block_end == Wrap(start_of_footer + size_of_footer_t - s.cur)
    IN  IF ~(distance_to_prev_block_end <= stack_available_size(s))
        THEN [s |-> s, ret |-> nullptr, why |-> "out_of_memory"]
        ELSE [s |-> stack_push(s, start_of_footer, distance_to_prev_block_end),
              ret |-> new_block_start, why |-> "allocated"]
\* lines 126-161
stack_malloc(s, size_bytes) ==
    LET prev_block_end == s.cur
        new_block_start == align_up(prev_block_end)
        aligned_size_bytes == align_up(size_bytes)
        start_of_footer ==
            Wrap(new_block_start + align_up2(aligned_size_bytes, alignment_of_footer))
        new_block_end == Wrap(start_of_footer + size_of_footer_t)
        distance_to_prev_block_end == Wrap(new_block_end - prev_block_end)
        has_space == distance_to_prev_block_end <= stack_available_size(s)
    IN  IF size_bytes = 0 THEN [s |-> s, ret |-> nullptr, why |-> "zero_size"]
        ELSE IF ~has_space THEN [s |-> s, ret |-> nullptr, why |-> "out_of_memory"]
        ELSE [s |-> stack_push(s, start_of_footer, distance_to_prev_block_end),
              ret |-> new_block_start, why |-> "allocated"]

\* a free that releases the top block whatever pointer it is given
stack_free_any(s, pointer) ==
    IF s.cur = start_aligned_address THEN [s |-> s, ret |-> FALSE, why |-> "empty"]
    ELSE [s |-> [s EXCEPT !.cur = Wrap(@ - Rd(s, Wrap(s.cur - size_of_footer_t)))],
          ret |-> TRUE, why |-> "freed"]

stack_free(s, pointer) ==
    LET address == pointer
        is_empty == s.cur = start_aligned_address
        current_block_end == s.cur
        current_footer_start == Wrap(current_block_end - size_of_footer_t)
        footer_distance == Rd(s, current_footer_start)
        last_block_end == Wrap(current_block_end - footer_distance)
        current_block_start == align_up(last_block_end)
        is_lifo == address = current_block_start
    IN  IF is_empty THEN [s |-> s, ret |-> FALSE, why |-> "empty"]
        ELSE IF ~is_lifo THEN [s |-> s, ret |-> FALSE, why |-> "not_lifo"]
        ELSE [s |-> [s EXCEPT !.cur = Wrap(@ - footer_distance)],
              ret |-> TRUE, why |-> "freed"]

\* buffers, lengths and alignments the modelled callers construct a stack with
StackBases == {Base, Base + PS}
StackSizes == {PS, StackRegionSize}
StackAlignments == {PS, 2 * PS, 4 * PS, 5 * PS}
\* sizes the callers request: nothing, small, medium and the whole buffer
StackReqSizes == {0, ReqSmall, ReqMid, StackRegionSize}

\* stack_memory::stack_memory
ConstructStack(size_bytes, requested) ==
    /\ _type_id = 4
    /\ _block_size = 0 /\ _blocks_count = 0 /\ _free_blocks_count = 0
    /\ _guard_against_double_free = FALSE
    /\ _free_list_root = nullptr /\ _allocations = 0 /\ _current_ptr = nullptr
    /\ _ptr \in StackBases
    /\ _size = size_bytes
    /\ alignment = requested
    /\ LET is_memory_valid_1 == alignment_of_footer <= _size
           is_memory_valid_3 == alignment % PS = 0
           is_memory_valid == is_memory_valid_1 /\ is_memory_valid_3
       IN  /\ _is_valid = is_memory_valid
           /\ _current_block_end = IF is_memory_valid THEN align_up(_ptr) ELSE 0
    /\ \E fill \in Fills : mem = [a \in Arena |-> fill]
    /\ oob = FALSE /\ hung = FALSE
    /\ live = EmptyBag
    /\ dead = {}
    /\ lifo = <<>>
    \* the constructor never calls try_throw()
    /\ last = [op |-> "ctor", arg |-> 0, ret |-> 0, why |-> "constructed",
               signal |-> FALSE]
    /\ hist = [phase |-> "mallocs", full |-> FALSE]
    /\ ops = 0

InitStack ==
    \E size_bytes \in StackSizes, requested \in StackAlignments :
        ConstructStack(size_bytes, requested)

StackCommit(s) ==
    /\ mem' = s.mem
    /\ _current_block_end' = s.cur
    /\ oob' = s.oob
    /\ hung' = s.hung
    /\ ops' = ops + 1
    /\ UNCHANGED <<config, _free_blocks_count, _free_list_root, _allocations,
                   _current_ptr, hist>>

\* the caller's books after p = malloc(n) on the stack came back as r
StackMallocResult(n, r) ==
    /\ StackCommit(r.s)
    /\ last' = [signal |-> Signal(r), op |-> "malloc", arg |-> n, ret |-> r.ret, why |-> r.why]
    /\ live' = IF r.ret # nullptr THEN live (+) SetToBag({[p |-> r.ret, n |-> n]}) ELSE live
    /\ lifo' = IF r.ret # nullptr THEN Append(lifo, [p |-> r.ret, n |-> n]) ELSE lifo
    /\ dead' = IF r.ret # nullptr THEN dead \ {r.ret} ELSE dead

\* p = malloc(n) on the stack; a caller stops using an engine that wrote outside
\* its region
StackMalloc(n) ==
    /\ _is_valid /\ ~oob /\ ops < StackMaxOps
    /\ StackMallocResult(n, stack_malloc(StackMachine, n))

\* the addresses the modelled callers pass to the stack's free: every address
\* malloc returned, live or not, and null
StackFreeArgs == {lifo[i].p : i \in 1..Len(lifo)} \cup dead \cup {nullptr}

\* the caller's books after free(p) on the stack came back as r: the engine has
\* released its top block
StackFreeResult(p, r) ==
    /\ StackCommit(r.s)
    /\ last' = [signal |-> Signal(r), op |-> "free", arg |-> p, ret |-> r.ret, why |-> r.why]
    /\ lifo' = IF r.ret /\ lifo # <<>> THEN SubSeq(lifo, 1, Len(lifo) - 1) ELSE lifo
    /\ live' = IF r.ret /\ lifo # <<>>
               THEN live (-) SetToBag({lifo[Len(lifo)]}) ELSE live
    /\ dead' = IF r.ret /\ p \notin {lifo[i].p : i \in 1..(Len(lifo) - 1)}
               THEN dead \cup {p} ELSE dead

\* free(p) on the stack, p being any address malloc has returned, or null
StackFree(p) ==
    /\ _is_valid /\ ~oob /\ ops < StackMaxOps
    /\ StackFreeResult(p, stack_free(StackMachine, p))

DoStackMalloc == \E n \in StackReqSizes : StackMalloc(n)
DoStackFree == \E p \in StackFreeArgs : StackFree(p)

NextStack == DoStackMalloc \/ DoStackFree
SpecStack == InitStack /\ [][NextStack]_vars

\* ------------------------------------------------------------ linear_memory
\* bounds of the modelled linear engines: buffer length, number of calls
LinearRegionSize == 128
LinearMaxOps == 6

\* the linear engine keeps a cursor and never touches the buffer
LinearMachine == [cur |-> _current_ptr]

\* a reset that goes back to the buffer's first byte, aligned or not
linear_reset_to_buffer(s) == [s EXCEPT !.cur = _ptr]
\* lines 81-87
linear_reset(s) == [s EXCEPT !.cur = align_up(_ptr)]
linear_available_size(s) == Wrap(end_aligned_address - align_up(s.cur))

\* lines 123-125: the cursor is handed out and moved
linear_bump(s, size_bytes) ==
    [s |-> [s EXCEPT !.cur = Wrap(@ + size_bytes)], ret |-> s.cur, why |-> "allocated"]
\* lines 98-125, size_bytes being the aligned size
linear_malloc_aligned(s, size_bytes) ==
    LET available_space == linear_available_size(s)
        has_available_size == size_bytes <= available_space
        has_requested_size_zero == size_bytes = 0
    IN  IF has_requested_size_zero
        THEN try_throw([s |-> s, ret |-> nullptr, why |-> "zero_size"])
        ELSE IF ~has_available_size
        THEN try_throw([s |-> s, ret |-> nullptr, why |-> "out_of_memory"])
        ELSE linear_bump(s, size_bytes)
linear_malloc(s, size_bytes) == linear_malloc_aligned(s, align_up(size_bytes))

linear_free(s, pointer) == [s |-> s, ret |-> FALSE, why |-> "no_free"]

\* buffers, lengths and alignments the modelled callers construct a linear engine with
LinearBases == {Base, Base + 1}
LinearSizes == {PS \div 2, LinearRegionSize}
LinearAlignments == {PS \div 2, PS, 2 * PS, 3 * PS}
LinearReqSizes == {0, ReqSmall, ReqMid, LinearRegionSize}

\* linear_memory::linear_memory
InitLinear ==
    /\ _type_id = 1
    /\ _block_size = 0 /\ _blocks_count = 0 /\ _free_blocks_count = 0
    /\ _guard_against_double_free = FALSE
    /\ _free_list_root = nullptr /\ _allocations = 0 /\ _current_block_end = 0
    /\ _ptr \in LinearBases
    /\ _size \in LinearSizes
    /\ alignment \in LinearAlignments
    /\ LET is_memory_valid == is_alignment_pow_2
       IN  /\ _is_valid = is_memory_valid
           /\ _current_ptr = IF is_memory_valid THEN linear_reset([cur |-> nullptr]).cur
                             ELSE nullptr
    /\ \E fill \in Fills : mem = [a \in Arena |-> fill]
    /\ oob = FALSE /\ hung = FALSE
    /\ live = EmptyBag
    /\ dead = {}
    /\ lifo = <<>>
    \* line 73: else try_throw()
    /\ last = [op |-> "ctor", arg |-> 0, ret |-> 0, why |-> "constructed",
               signal |-> ~_is_valid]
    /\ hist = [phase |-> "mallocs", full |-> FALSE]
    /\ ops = 0

LinearCommit(s) ==
    /\ _current_ptr' = s.cur
    /\ ops' = ops + 1
    /\ UNCHANGED <<config, mem, _free_blocks_count, _free_list_root, _allocations,
                   _current_block_end, oob, hung, hist>>

\* the caller's books after p = malloc(n) on the linear engine came back as r
LinearMallocResult(n, r) ==
    /\ LinearCommit(r.s)
    /\ last' = [signal |-> Signal(r), op |-> "malloc", arg |-> n, ret |-> r.ret, why |-> r.why]
    /\ live' = IF r.ret # nullptr THEN live (+) SetToBag({[p |-> r.ret, n |-> n]}) ELSE live
    /\ lifo' = IF r.ret # nullptr THEN Append(lifo, [p |-> r.ret, n |-> n]) ELSE lifo
    /\ UNCHANGED dead

\* p = malloc(n) on the linear engine
LinearMalloc(n) ==
    /\ _is_valid /\ ops < LinearMaxOps
    /\ LinearMallocResult(n, linear_malloc(LinearMachine, n))

\* the caller's books after free(p) on the linear engine came back as r
LinearFreeResult(p, r) ==
    /\ LinearCommit(r.s)
    /\ last' = [signal |-> Signal(r), op |-> "free", arg |-> p, ret |-> r.ret, why |-> r.why]
    /\ UNCHANGED <<live, lifo, dead>>

\* free(p) on the linear engine, p being an address malloc has returned, or null
LinearFree(p) ==
    /\ _is_valid /\ ops < LinearMaxOps
    /\ LinearFreeResult(p, linear_free(LinearMachine, p))

\* the caller's books after reset(): what it held is gone
LinearResetResult(s) ==
    /\ LinearCommit(s)
    /\ last' = [signal |-> FALSE, op |-> "reset", arg |-> 0, ret |-> 0, why |-> "reset"]
    /\ live' = EmptyBag
    /\ lifo' = <<>>
    /\ dead' = dead \cup {lifo[i].p : i \in 1..Len(lifo)}

\* reset() on the linear engine
LinearReset ==
    /\ _is_valid /\ ops < LinearMaxOps
    /\ LinearResetResult(linear_reset(LinearMachine))

DoLinearMalloc == \E n \in LinearReqSizes : LinearMalloc(n)
DoLinearFree == \E p \in {lifo[i].p : i \in 1..Len(lifo)} \cup {nullptr} : LinearFree(p)

NextLinear == DoLinearMalloc \/ DoLinearFree \/ LinearReset
SpecLinear == InitLinear /\ [][NextLinear]_vars

\* ---------------------------------------------------- polymorphic_allocator
\* the resource behind the facade: the mutable data of whichever engine it is
Resource == [mem |-> mem, root |-> _free_list_root, alloc |-> _allocations,
             free |-> _free_blocks_count,
             cur |-> IF _type_id = 4 THEN _current_block_end ELSE _current_ptr,
             oob |-> oob, hung |-> hung,
             lo |-> start_aligned_address, hi |-> end_aligned_address]

\* _mem->malloc(nbytes) and _mem->free(p): the virtual calls
resource_malloc(s, nbytes) ==
    CASE _type_id = 1 -> linear_malloc(s, nbytes)
      [] _type_id = 2 -> dynamic_malloc(s, nbytes)
      [] _type_id = 3 -> pool_malloc(s, nbytes)
      [] _type_id = 4 -> stack_malloc(s, nbytes)
resource_free(s, p) ==
    CASE _type_id = 1 -> linear_free(s, p)
      [] _type_id = 2 -> dynamic_free(s, p)
      [] _type_id = 3 -> pool_free(s, p)
      [] _type_id = 4 -> stack_free(s, p)

\* available_size() of the resource
available_size ==
    CASE _type_id = 1 -> linear_available_size(LinearMachine)
      [] _type_id = 2 -> dynamic_available_size
      [] _type_id = 3 -> pool_available_size
      [] _type_id = 4 -> stack_available_size(StackMachine)

allocate_bytes(s, nbytes) == resource_malloc(s, nbytes)
deallocate_bytes(s, p) == resource_free(s, p)
\* U being an object type of sizeof_U bytes
allocate_object(s, sizeof_U) == allocate_bytes(s, sizeof_U)
deallocate_object(s, p) == deallocate_bytes(s, p)
\* new(p) U(args): the object's words are stored at p, a being what allocate_object gave
construct(a, sizeof_U, w) ==
    IF a.ret = nullptr THEN a
    ELSE [a EXCEPT !.s.mem = [x \in DOMAIN @ |->
                                 IF a.ret <= x /\ x + PS <= a.ret + sizeof_U THEN w ELSE @[x]]]
new_object(s, sizeof_U, w) == construct(allocate_object(s, sizeof_U), sizeof_U, w)
\* a delete_object that destroys the object and forgets to deallocate it
delete_object_destroy_only(s, p) == [s |-> s, ret |-> TRUE, why |-> "freed"]
\* p->~U() leaves the memory as it is
delete_object(s, p) == deallocate_object(s, p)

\* number of calls made on the engine behind the facade
EngineMaxOps ==
    CASE _type_id = 1 -> LinearMaxOps
      [] _type_id = 2 -> MaxOps
      [] _type_id = 3 -> PoolMaxOps
      [] _type_id = 4 -> StackMaxOps

ResourceCommit(s) ==
    /\ mem' = s.mem
    /\ _free_list_root' = s.root
    /\ _allocations' = s.alloc
    /\ _free_blocks_count' = s.free
    /\ _current_block_end' = IF _type_id = 4 THEN s.cur ELSE _current_block_end
    /\ _current_ptr' = IF _type_id = 1 THEN s.cur ELSE _current_ptr
    /\ oob' = s.oob
    /\ hung' = s.hung
    /\ ops' = ops + 1
    /\ UNCHANGED config

\* the caller's books after p = new_object(..); delete_object(p), a being what
\* new_object gave and r what the free inside delete_object returned
NewDeleteDone(sizeof_U, a, r) ==
    /\ ResourceCommit(r.s)
    /\ last' = [signal |-> Signal(r), op |-> "new_delete", arg |-> sizeof_U, ret |-> a.ret,
                why |-> IF r.s.hung THEN "hung" ELSE r.why]
    /\ live' = IF r.ret THEN live ELSE live (+) SetToBag({[p |-> a.ret, n |-> sizeof_U]})
    /\ lifo' = IF r.ret THEN lifo ELSE Append(lifo, [p |-> a.ret, n |-> sizeof_U])
    /\ dead' = IF ~r.ret THEN dead \ {a.ret}
               ELSE IF a.ret \in {l.p : l \in BagToSet(live)} THEN dead
               ELSE dead \cup {a.ret}
    /\ hist' = [hist EXCEPT !.phase = "mixed"]
NewDeleteResult(sizeof_U, a) ==
    /\ a.ret # nullptr /\ ~a.s.hung
    /\ NewDeleteDone(sizeof_U, a, delete_object(a.s, a.ret))

\* p = new_object<U>(args) immediately followed by delete_object(p)
NewDeleteObject(sizeof_U) ==
    /\ _is_valid /\ ~hung /\ ~oob /\ ops < EngineMaxOps
    /\ \E w \in Fills : NewDeleteResult(sizeof_U, new_object(Resource, sizeof_U, w))

DoNewDeleteObject == \E sizeof_U \in {ReqSmall, ReqMid} : NewDeleteObject(sizeof_U)

\* ------------------------------------------------------------- every engine
\* dynamic_memory over a buffer too small for one block
SmallSizes == {2 * PS}
InitDynamicSmall ==
    \E ptr \in Bases, size_bytes \in SmallSizes, requested \in Alignments :
        ConstructDynamic(ptr, size_bytes, requested)

InitEngines == InitLinear \/ InitDynamic \/ InitDynamicSmall \/ InitPool \/ InitStack

LinearCalls == _type_id = 1 /\ NextLinear
\* the callers of the dynamic engine: malloc, free, and free a second time
DynamicCalls == _type_id = 2 /\ _is_valid /\ (DoMalloc \/ DoFree \/ DoFreeDead)
PoolCalls == _type_id = 3 /\ _is_valid /\ NextPool
StackCalls == _type_id = 4 /\ NextStack

NextEngines == LinearCalls \/ DynamicCalls \/ PoolCalls \/ StackCalls \/ DoNewDeleteObject
SpecEngines == InitEngines /\ [][NextEngines]_vars

\* ------------------------------------------- engines that failed construction
\* number of calls made on an engine whose is_valid() is false
InvalidMaxOps == 3

\* constructions that validation rejects: an alignment that is no power of
\* two, a buffer too small for one block, a stack buffer below one footer or
\* with an alignment that is no multiple of the pointer size
InitInvalid ==
    \/ InitLinear /\ ~_is_valid
    \/ InitDynamicSmall
    \/ \E ptr \in Bases, size_bytes \in Sizes : ConstructDynamic(ptr, size_bytes, 3 * PS)
    \/ ConstructPool(PS)
    \/ ConstructStack(PS \div 2, PS)
    \/ ConstructStack(StackRegionSize, PS \div 2)

\* the caller's books after p = malloc(n) on such an engine came back as r
MallocOnInvalidResult(n, r) ==
    /\ ResourceCommit(r.s)
    /\ last' = [signal |-> Signal(r), op |-> "malloc", arg |-> n, ret |-> r.ret,
                why |-> IF r.ret = nullptr THEN "null" ELSE "allocated"]
    /\ live' = IF r.ret # nullptr THEN live (+) SetToBag({[p |-> r.ret, n |-> n]}) ELSE live
    /\ lifo' = IF r.ret # nullptr THEN Append(lifo, [p |-> r.ret, n |-> n]) ELSE lifo
    /\ UNCHANGED <<dead, hist>>

\* p = malloc(n) on an engine whose is_valid() is false
MallocOnInvalid(n) ==
    /\ ~_is_valid /\ ops < InvalidMaxOps
    /\ MallocOnInvalidResult(n, resource_malloc(Resource, n))

NextInvalid == \E n \in StackReqSizes : MallocOnInvalid(n)
SpecInvalid == InitInvalid /\ [][NextInvalid]_vars

\* ------------------------------------------------------ reading the region
\* a walk that has met more nodes than the arena has words is in a cycle
WalkFuel == Cardinality(Arena) + 1

\* the blocks met when walking from aligned_base by header sizes
RECURSIVE WalkFrom(_, _)
WalkFrom(a, fuel) ==
    IF fuel = 0 \/ a >= end_aligned_address \/ a \notin Arena \/ hdr_size(mem[a]) = 0
    THEN <<>>
    ELSE <<a>> \o WalkFrom(a + hdr_size(mem[a]), fuel - 1)

Partition == WalkFrom(start_aligned_address, WalkFuel)
PartitionBlocks == {Partition[i] : i \in 1..Len(Partition)}
PartitionEnd ==
    IF Partition = <<>> THEN start_aligned_address
    ELSE Partition[Len(Partition)] + hdr_size(mem[Partition[Len(Partition)]])
IsFreeBlock(a) == ~hdr_is_allocated(mem[a])
FreeBlocks == {a \in PartitionBlocks : IsFreeBlock(a)}

\* the nodes met when following next from the free-list root
RECURSIVE ListFrom(_, _)
ListFrom(h, fuel) ==
    IF h = nullptr \/ fuel = 0 \/ h \notin Arena \/ next_of(h) \notin Arena THEN <<>>
    ELSE <<h>> \o ListFrom(mem[next_of(h)], fuel - 1)

FreeList == ListFrom(_free_list_root, WalkFuel)
FreeListNodes == {FreeList[i] : i \in 1..Len(FreeList)}

\* ------------------------------------------------------------------ claims
\* C1: the intervals [p, p+requested) of the live allocations are pairwise
\* disjoint, and no address is live twice.
C1_NonOverlap ==
    /\ \A l \in BagToSet(live) : CopiesIn(l, live) = 1
    /\ \A l1, l2 \in BagToSet(live) :
         l1 # l2 => (l1.p + l1.n <= l2.p \/ l2.p + l2.n <= l1.p)

\* C2: the nodes on the free list are exactly the blocks of the partition whose
\* status bit is 0, and the root is null iff there is no free block.
C2_FreeListMembership ==
    /\ FreeListNodes = FreeBlocks
    /\ (_free_list_root = nullptr) <=> (FreeBlocks = {})

\* C3: addresses strictly increase along next from the root.
C3_AddressOrder ==
    \A i \in 1..(Len(FreeList) - 1) : FreeList[i] < FreeList[i + 1]

\* C4: the walk by header sizes from aligned_base ends exactly at aligned_end.
C4_CapacityConservation ==
    _is_valid => PartitionEnd = end_aligned_address

\* C5: no two blocks adjacent in the region are both free.
C5_CoalesceMaximality ==
    \A i \in 1..(Len(Partition) - 1) :
        ~(IsFreeBlock(Partition[i]) /\ IsFreeBlock(Partition[i + 1]))

RegionBytes == end_aligned_address - start_aligned_address

\* the engine as the constructor leaves it: one free block over the whole region
IsInitialState ==
    /\ _free_list_root = start_aligned_address
    /\ mem[start_aligned_address] = RegionBytes
    /\ mem[end_aligned_address - align_up(size_of_block_footer)] = RegionBytes
    /\ mem[prev_of(start_aligned_address)] = nullptr
    /\ mem[next_of(start_aligned_address)] = nullptr
    /\ dynamic_available_size = RegionBytes

\* C6: mallocs on a fresh engine followed by one free of every returned pointer
\* bring the engine back to one free block over the whole region.
C6_FullReclaimFresh ==
    (hist.phase = "frees" /\ live = EmptyBag) => IsInitialState

C6_Witness ==
    /\ hist.phase = "frees" /\ hist.full /\ live = EmptyBag
    /\ Cardinality(dead) >= 2 /\ last.op = "free" /\ last.ret = TRUE

\* the header word the engine reads for free(p)
HeaderWordOf(p) == mem[Wrap(p - align_up(size_of_block_base_header))]

\* C7: free(p) of a block whose header is marked free returns false and changes
\* neither the memory, nor the root, nor the allocation counter.
C7_DoubleFree ==
    [][ (last'.op \in {"free", "free_dead"} /\ is_aligned(last'.arg)
            /\ ~hdr_is_allocated(HeaderWordOf(last'.arg)))
        => (last'.ret = FALSE /\ UNCHANGED <<mem, _free_list_root, _allocations>>) ]_vars

C7_Witness ==
    last.op = "free_dead" /\ last.why = "marked_free" /\ last.ret = FALSE

\* C8: a successful malloc(n) takes the first among the smallest nodes of the
\* free list whose effective payload is >= align_up(n).
PayloadOf(h) == hdr_size(mem[h]) - aligned_base_header_and_footer
C8_BestFit ==
    [][ (last'.op = "malloc" /\ last'.why = "allocated")
        => LET L == FreeList
               want == align_up(last'.arg)
               chosen == last'.ret - align_up(size_of_block_base_header)
           IN  \E i \in 1..Len(L) :
                 /\ L[i] = chosen
                 /\ PayloadOf(L[i]) >= want
                 /\ \A j \in 1..Len(L) :
                      PayloadOf(L[j]) >= want
                      => \/ hdr_size(mem[L[i]]) < hdr_size(mem[L[j]])
                         \/ (hdr_size(mem[L[i]]) = hdr_size(mem[L[j]]) /\ i <= j) ]_vars

\* C9: malloc(n) returns null exactly when no free block of the region has an
\* effective payload >= align_up(n), and a null return changes nothing.
C9_OutOfMemoryIffNothingFits ==
    [][ (last'.op = "malloc" /\ ~hung')
        => /\ (last'.ret = nullptr) <=>
                ~(\E b \in FreeBlocks : PayloadOf(b) >= align_up(last'.arg))
           /\ (last'.ret = nullptr) => UNCHANGED <<mem, _free_list_root, _allocations>> ]_vars

\* the nodes met when following next from the pool's free-list root
RECURSIVE PoolListFrom(_, _)
PoolListFrom(h, fuel) ==
    IF h = nullptr \/ fuel = 0 \/ h \notin Arena THEN <<>>
    ELSE <<h>> \o PoolListFrom(mem[h], fuel - 1)

PoolFreeList == PoolListFrom(_free_list_root, WalkFuel)
PoolFreeListNodes == {PoolFreeList[i] : i \in 1..Len(PoolFreeList)}

\* the words that hold the engine's own data
MetadataWords ==
    IF _type_id = 3 THEN PoolFreeListNodes
    ELSE PartitionBlocks
         \cup {b + hdr_size(mem[b]) - align_up(size_of_block_footer) : b \in PartitionBlocks}
         \cup {prev_of(b) : b \in FreeBlocks} \cup {next_of(b) : b \in FreeBlocks}

\* C10: the size bytes from a non-null malloc(size) lie in the region, outside
\* every other live allocation and outside the engine's own data.
C10_UsableSize ==
    (last.op = "malloc" /\ last.ret # nullptr)
    => /\ start_aligned_address <= last.ret
       /\ last.ret + last.arg <= end_aligned_address
       /\ \A l \in BagToSet(live) :
            \/ l.p + l.n <= last.ret
            \/ last.ret + last.arg <= l.p
            \/ (l = [p |-> last.ret, n |-> last.arg] /\ CopiesIn(l, live) = 1)
       /\ \A w \in MetadataWords : w + PS <= last.ret \/ last.ret + last.arg <= w

\* C11: on a valid engine every non-null malloc return is a multiple of the
\* engine's alignment.
C11_Alignment ==
    (_is_valid /\ last.op = "malloc" /\ last.ret # nullptr) => last.ret % alignment = 0

\* C12: every non-null p = malloc(n) has aligned_base <= p < aligned_end and
\* p + n <= aligned_end.
C12_Containment ==
    (_is_valid /\ last.op = "malloc" /\ last.ret # nullptr)
    => /\ start_aligned_address <= last.ret
       /\ last.ret < end_aligned_address
       /\ last.ret + last.arg <= end_aligned_address

\* C13: every word an engine writes, during construction and during every call,
\* lies inside [aligned_base, aligned_end).
C13_AccessesInRegion == ~oob

PoolSlots == (end_aligned_address - start_aligned_address) \div _block_size

\* C14: with the guard on, every non-null return of the pool's malloc is
\* aligned_base + k*B for some k with 0 <= k < N.
C14_PoolSlotDiscipline ==
    (_type_id = 3 /\ _guard_against_double_free /\ last.op = "malloc" /\ last.ret # nullptr)
    => \E k \in 0..(PoolSlots - 1) : last.ret = start_aligned_address + k * _block_size

\* the free list holds no slot twice, and no slot is live twice
PoolListHasNoDuplicate == Len(PoolFreeList) = Cardinality(PoolFreeListNodes)
PoolNoSlotLiveTwice ==
    \A l1, l2 \in BagToSet(live) :
        l1.p = l2.p => (l1 = l2 /\ CopiesIn(l1, live) = 1)

\* C15: with the guard on, free(x) of a slot on the free list returns false and
\* changes neither the list nor the free count; the list never holds a slot
\* twice and no slot is live twice.
C15_PoolDoubleFreeGuard ==
    [][ (_type_id = 3 /\ _guard_against_double_free)
        => /\ PoolListHasNoDuplicate /\ PoolListHasNoDuplicate'
           /\ PoolNoSlotLiveTwice /\ PoolNoSlotLiveTwice'
           /\ (last'.op = "free" /\ last'.arg \in PoolFreeListNodes)
              => /\ last'.ret = FALSE
                 /\ UNCHANGED <<mem, _free_list_root, _free_blocks_count>> ]_vars

C15_Witness ==
    /\ _type_id = 3 /\ _guard_against_double_free
    /\ last.op = "free" /\ last.why = "already_free" /\ last.ret = FALSE
    /\ last.arg \in PoolFreeListNodes
    /\ live # EmptyBag

\* C16: free(p) on the stack returns true only if p is the address returned by
\* the most recent successful malloc that has not been freed yet.
C16_StackLifo ==
    [][ (_type_id = 4 /\ last'.op = "free" /\ last'.ret = TRUE)
        => (lifo # <<>> /\ last'.arg = lifo[Len(lifo)].p) ]_vars

C16_Witness ==
    /\ _type_id = 4 /\ Len(lifo) >= 2
    /\ last.op = "free" /\ last.arg = lifo[1].p /\ last.ret = FALSE /\ last.why = "not_lifo"

\* C17: on the stack, malloc(n) returns null whenever the aligned payload plus
\* its footer does not fit between the top of the stack and aligned_end; free
\* returns false when no block is live; free of the top block returns true,
\* also after a rejected free.
C17_StackCapacity ==
    [][ _type_id = 4
        => /\ (last'.op = "malloc"
                 /\ align_up(_current_block_end) + align_up(last'.arg) + size_of_footer_t
                        > end_aligned_address)
              => last'.ret = nullptr
           /\ (last'.op = "free" /\ _current_block_end = start_aligned_address)
              => last'.ret = FALSE
           /\ (last'.op = "free" /\ lifo # <<>> /\ last'.arg = lifo[Len(lifo)].p)
              => last'.ret = TRUE ]_vars

\* C19: reset() of a valid linear engine leaves the cursor at aligned_base and
\* available_size() at aligned_end - aligned_base (in uptr arithmetic), and
\* a reset() that follows a reset() changes nothing of the engine
C19_LinearReset ==
    [][ (_type_id = 1 /\ _is_valid /\ last'.op = "reset")
        => /\ _current_ptr' = start_aligned_address
           /\ available_size' = Wrap(end_aligned_address - start_aligned_address)
           /\ last.op = "reset" => UNCHANGED <<_current_ptr, mem, config>> ]_vars

C19_Witness ==
    /\ _type_id = 1 /\ _is_valid /\ last.op = "reset"
    /\ dead # {} /\ live = EmptyBag
    /\ _ptr # start_aligned_address
    /\ _current_ptr = start_aligned_address

\* what an engine keeps: the region with its headers, footers and links,
\* the free list's root, the counters and the cursors
EngineState ==
    <<mem, _free_list_root, _allocations, _free_blocks_count,
      _current_block_end, _current_ptr>>
\* the last call was a malloc that returned null or a free that returned false
FailedCall ==
    \/ last.op = "malloc" /\ last.ret = nullptr
    \/ last.op \in {"free", "free_dead"} /\ last.ret = FALSE

\* C20: on every engine a malloc that returns null and a free that returns
\* false leave the engine state and available_size() as they were
C20_FailuresDoNotMutate ==
    [][ (FailedCall' /\ ~hung')
        => (UNCHANGED EngineState /\ available_size' = available_size) ]_vars

\* C21: on an engine whose construction failed, is_valid() is false and every
\* malloc returns null and touches no memory outside the region
C21_InvalidConstruction ==
    [][ (~_is_valid /\ last'.op = "malloc")
        => (last'.ret = nullptr /\ (oob' => oob)) ]_vars

\* C22: an engine whose is_valid() is true has an alignment that is a power
\* of two and at least the pointer width
C22_AlignmentInvariant ==
    _is_valid => (is_pow_2(alignment) /\ alignment >= PS)

\* the last call succeeded: a malloc that returned an address, a free that
\* returned true, a construction that left the engine valid
SucceededCall ==
    \/ last.op = "malloc" /\ last.ret # nullptr
    \/ last.op \in {"free", "free_dead"} /\ last.ret = TRUE
    \/ last.op = "ctor" /\ _is_valid

\* C23: in a build with MICRO_ALLOC_ENABLE_THROW every call that returns
\* null or false in the silent build, and every construction that leaves the
\* engine invalid, raises the signal, and no call that succeeds raises it
\* (a call that does not return is left out)
C23_FailureSignal ==
    ~hung => /\ (FailedCall \/ (last.op = "ctor" /\ ~_is_valid)) => last.signal
             /\ SucceededCall => ~last.signal

\* C24: on the linear and on the stack engine malloc(0) returns null and
\* leaves the cursor where it was
C24_ZeroSize ==
    [][ (_type_id \in {1, 4} /\ last'.op = "malloc" /\ last'.arg = 0)
        => (last'.ret = nullptr /\ UNCHANGED <<_current_ptr, _current_block_end>>) ]_vars

C24_Witness ==
    /\ _type_id = 4 /\ _is_valid /\ lifo # <<>>
    /\ last.op = "malloc" /\ last.arg = 0 /\ last.ret = nullptr
    /\ _current_block_end # start_aligned_address

\* C25: on the stack, pool and dynamic engines a malloc that succeeds lowers
\* available_size(), a free that succeeds raises it, and available_size()
\* never exceeds aligned_end - aligned_base
C25_AvailableSizeMonotone ==
    [][ (_type_id \in {2, 3, 4} /\ _is_valid /\ ~hung')
        => /\ (last'.op = "malloc" /\ last'.ret # nullptr)
                => available_size' < available_size
           /\ (last'.op \in {"free", "free_dead"} /\ last'.ret = TRUE)
                => available_size' > available_size
           /\ available_size <= Wrap(end_aligned_address - start_aligned_address)
           /\ available_size' <= Wrap(end_aligned_address - start_aligned_address) ]_vars

\* C26: the free list of the dynamic engine is doubly linked: the root's
\* prev is null and every node's next has that node as its prev
C26_BackLinks ==
    (_type_id = 2 /\ _is_valid)
    => /\ _free_list_root # nullptr => mem[prev_of(_free_list_root)] = nullptr
       /\ \A i \in 1..(Len(FreeList) - 1) :
            mem[prev_of(FreeList[i + 1])] = FreeList[i]

\* the block malloc has just handed out, and what was right of it if it was split
TakenBlock == Wrap(last.ret - align_up(size_of_block_base_header))

\* C27: when malloc splits a candidate, the right remainder stands where the
\* candidate stood in the free list: its prev and next are the candidate's
\* former neighbours, the former predecessor's next (or the root) and the
\* former successor's prev point to it
C27_SplitPlacement ==
    [][ (/\ _type_id = 2 /\ last'.op = "malloc" /\ last'.ret # nullptr /\ ~hung'
         /\ hdr_size(mem'[TakenBlock']) < hdr_size(mem[TakenBlock']))
        => LET candidate == TakenBlock'
               block_prev == mem[prev_of(candidate)]
               block_next == mem[next_of(candidate)]
               remainder == candidate + hdr_size(mem'[candidate])
           IN  /\ mem'[prev_of(remainder)] = block_prev
               /\ mem'[next_of(remainder)] = block_next
               /\ IF block_prev = nullptr THEN _free_list_root' = remainder
                  ELSE mem'[next_of(block_prev)] = remainder
               /\ block_next # nullptr => mem'[prev_of(block_next)] = remainder ]_vars

\* C28: the chain of next pointers from the root of the dynamic engine's free
\* list meets no node twice, and the scans of malloc and free come to an end
C28_Termination ==
    (_type_id = 2 /\ _is_valid)
    => (~hung /\ Len(FreeList) = Cardinality(FreeListNodes))

\* the words that hold at least one byte of the live allocation l
WordsOf(l) == {a \in Arena : a < l.p + l.n /\ a + PS > l.p}

\* C29: a malloc or a free of the dynamic engine leaves every word of every
\* live allocation as it was, the allocation being freed excepted
C29_PayloadIntegrity ==
    [][ (_type_id = 2 /\ last'.op \in {"malloc", "free"})
        => \A l \in BagToSet(live) :
             (last'.op = "free" /\ last'.arg = l.p)
             \/ \A a \in WordsOf(l) : mem'[a] = mem[a] ]_vars

\* C30: after any interleaving of mallocs and frees of live pointers, once
\* every live allocation has been freed the engine is back to one free block
\* over [start_aligned_address, end_aligned_address) and available_size
\* equals the length of that region.
C30_FullReclaimInterleaved ==
    (_type_id = 2 /\ _is_valid /\ ~hung /\ live = EmptyBag /\ last.op = "free") =>
        /\ IsInitialState
        /\ FreeList = <<start_aligned_address>>
        /\ available_size = RegionBytes

\* the block size the claim calls req, for a request of n bytes
RequiredSize(n) ==
    max(align_up(size_of_block_base_header) + align_up(size_of_block_footer) + align_up(n),
        minimal_size_of_any_block)

\* C31: malloc(n) splits the chosen candidate iff its size is at least
\* req + minimum block size + alignment; a split leaves an allocated block of
\* size req and a free remainder of size candidate size - req; without a
\* split the allocated block is the whole candidate
C31_SplitThreshold ==
    [][ (_type_id = 2 /\ last'.op = "malloc" /\ last'.ret # nullptr /\ ~hung')
        => LET candidate == TakenBlock'
               size == hdr_size(mem[candidate])
               req == RequiredSize(last'.arg)
               remainder == candidate + req
           IN  IF size >= req + minimal_size_of_any_block + alignment
               THEN /\ hdr_size(mem'[candidate]) = req
                    /\ mem'[remainder] = hdr_set_size_and_status(size - req, FALSE)
                    /\ mem'[remainder + (size - req) - align_up(size_of_block_footer)]
                           = mem'[remainder]
               ELSE hdr_size(mem'[candidate]) = size ]_vars

\* a malloc in a mixed history has split a candidate, and another has taken one whole
C31_Witness ==
    /\ _type_id = 2 /\ hist.phase = "mixed" /\ last.op = "malloc" /\ last.ret # nullptr
    /\ hdr_size(mem[TakenBlock]) = RequiredSize(last.arg)
    /\ TakenBlock + RequiredSize(last.arg) \in FreeListNodes
    /\ \E l \in BagToSet(live) :
         hdr_size(HeaderWordOf(l.p)) >= RequiredSize(l.n) + alignment

\* the footer word of the block whose header is at b
FooterWordOf(b) == mem[Wrap(b + hdr_size(mem[b]) - align_up(size_of_block_footer))]

\* C32: every block of the dynamic engine's region has the same word in its
\* header and in its footer, a size that is a multiple of the alignment and
\* at least the minimal block size
C32_BoundaryTags ==
    (_type_id = 2 /\ _is_valid)
    => \A b \in PartitionBlocks :
         /\ FooterWordOf(b) = mem[b]
         /\ hdr_size(mem[b]) % alignment = 0
         /\ hdr_size(mem[b]) >= minimal_size_of_any_block

\* the sum of the block sizes of the nodes of the list L
RECURSIVE SumOfSizes(_)
SumOfSizes(L) == IF L = <<>> THEN 0 ELSE hdr_size(mem[Head(L)]) + SumOfSizes(Tail(L))

\* the sum of the block sizes of the allocations of the set S, each counted
\* as often as the caller holds it
RECURSIVE SumOfLive(_)
SumOfLive(S) ==
    IF S = {} THEN 0
    ELSE LET l == CHOOSE x \in S : TRUE
         IN  CopiesIn(l, live) * hdr_size(HeaderWordOf(l.p)) + SumOfLive(S \ {l})

\* C33: available_size() of the dynamic engine is the sum of the sizes of the
\* blocks on the free list, and what is left of the region is the sum of the
\* block sizes of the live allocations
C33_Accounting ==
    (_type_id = 2 /\ _is_valid /\ ~hung)
    => /\ available_size = SumOfSizes(FreeList)
       /\ RegionBytes - available_size = SumOfLive(BagToSet(live))

\* the word free(p) compares with the header word: the footer of the block
\* that the header word at p - align_up(base header size) describes
FooterWordFor(p) == FooterWordOf(Wrap(p - align_up(size_of_block_base_header)))

\* C34: free(p) of the dynamic engine returns false when p is no multiple of
\* the alignment and when the header word read for p differs from the footer
\* word that header locates; neither the memory, nor the root, nor the
\* allocation counter changes
C34_FreeRejections ==
    [][ (/\ _type_id = 2 /\ last'.op \in {"free", "free_dead"}
         /\ (~is_aligned(last'.arg) \/ HeaderWordOf(last'.arg) # FooterWordFor(last'.arg)))
        => (last'.ret = FALSE /\ UNCHANGED <<mem, _free_list_root, _allocations>>) ]_vars

\* free has rejected an address whose header word looks like an allocated block
C34_Witness ==
    /\ _type_id = 2 /\ last.op = "free_dead" /\ last.why = "not_a_block" /\ last.ret = FALSE
    /\ is_aligned(last.arg) /\ hdr_is_allocated(HeaderWordOf(last.arg))
    /\ \E l \in BagToSet(live) : last.arg = l.p + PS

\* what the stack's malloc(n) is to do when the payload takes payload_bytes
\* bytes before the footer, and whether the call whose result is in last' did it
StackMallocPlaces(payload_bytes) ==
    LET start == align_up(_current_block_end)
        footer == Wrap(start + payload_bytes)
        new_block_end == Wrap(footer + size_of_footer_t)
        distance == Wrap(new_block_end - _current_block_end)
    IN  /\ (last'.ret = nullptr) <=> (distance > available_size)
        /\ last'.ret # nullptr
           => /\ last'.ret = start
              /\ _current_block_end' = new_block_end
              /\ footer \in Arena => mem'[footer] = distance

\* C35: a stack malloc(n) puts the footer at
\* align_up(current_end) + align_up(n, pointer width), ends the block one
\* footer after that, stores new end - old end in the footer, moves
\* current_end to the new end and returns align_up(old current_end); it
\* fails iff that distance exceeds available_size()
C35_StackMallocArithmetic ==
    [][ (_type_id = 4 /\ _is_valid /\ last'.op = "malloc")
        => StackMallocPlaces(align_up2(last'.arg, alignment_of_footer)) ]_vars

\* C35, with the payload rounded up to the engine's alignment before it is
\* rounded up to the pointer width, and for requests of at least one byte:
\* malloc(0) fails whatever is available
C35_StackMallocArithmeticAligned ==
    [][ (_type_id = 4 /\ _is_valid /\ last'.op = "malloc")
        => IF last'.arg = 0 THEN last'.ret = nullptr /\ UNCHANGED <<mem, _current_block_end>>
           ELSE StackMallocPlaces(align_up2(align_up(last'.arg), alignment_of_footer)) ]_vars

\* a malloc on a stack with an alignment above the pointer width has pushed a
\* block above a block end that is not aligned
C35_Witness ==
    /\ _type_id = 4 /\ _is_valid /\ alignment > PS /\ Len(lifo) >= 2
    /\ last.op = "malloc" /\ last.ret # nullptr /\ last.arg % alignment # 0
    /\ mem[_current_block_end - size_of_footer_t]
           > align_up(last.arg) + size_of_footer_t

\* the block ends met when walking down from the block end e over k footers:
\* each footer, one word below the block end, holds the distance to the one before
RECURSIVE FooterChain(_, _)
FooterChain(e, k) ==
    IF k = 0 \/ Wrap(e - size_of_footer_t) \notin Arena THEN <<e>>
    ELSE <<e>> \o FooterChain(Wrap(e - mem[Wrap(e - size_of_footer_t)]), k - 1)

\* C36: on a valid stack engine current_end lies between aligned_base and
\* aligned_end, and the walk down the footers from current_end is strictly
\* decreasing and reaches aligned_base after as many steps as there are live
\* blocks
C36_StackFooterChain ==
    (_type_id = 4 /\ _is_valid)
    => /\ start_aligned_address <= _current_block_end
       /\ _current_block_end <= end_aligned_address
       /\ LET chain == FooterChain(_current_block_end, Len(lifo))
          IN  /\ Len(chain) = Len(lifo) + 1
              /\ chain[Len(chain)] = start_aligned_address
              /\ \A i \in 1..(Len(chain) - 1) : chain[i + 1] < chain[i]

\* C37: on a valid linear engine malloc(n), n > 0, succeeds iff
\* align_up(n) <= aligned_end - current; a success returns the cursor of before
\* the call, moves the cursor up by align_up(n) and lies above every range
\* returned since the last reset; free returns false and leaves the cursor
C37_LinearMalloc ==
    [][ (_type_id = 1 /\ _is_valid)
        => /\ (last'.op = "malloc" /\ last'.arg > 0)
              => /\ (last'.ret # nullptr)
                       <=> (align_up(last'.arg) <= Wrap(end_aligned_address - _current_ptr))
                 /\ last'.ret # nullptr
                    => /\ last'.ret = _current_ptr
                       /\ _current_ptr' = _current_ptr + align_up(last'.arg)
                       /\ \A i \in 1..Len(lifo) : lifo[i].p + lifo[i].n <= last'.ret
           /\ last'.op = "free"
              => (last'.ret = FALSE /\ _current_ptr' = _current_ptr) ]_vars

\* the address of slot k of the pool, k counted from 0
SlotAddress(k) == start_aligned_address + k * _block_size

\* C38: a valid pool with N >= 1 slots starts with free_blocks_count() = N
\* and the free list slot 0 -> slot 1 -> ... -> slot N-1 -> null; as long as
\* only mallocs have been called, the k-th of them returns slot k-1, and the
\* one after the N-th returns null
C38_PoolInitialOrder ==
    [][ (_type_id = 3 /\ _is_valid /\ PoolSlots >= 1)
        => /\ ops = 0
              => /\ _free_blocks_count = PoolSlots
                 /\ PoolFreeList = [k \in 1..PoolSlots |-> SlotAddress(k - 1)]
           /\ (last'.op = "malloc" /\ _free_blocks_count = PoolSlots - ops)
              => last'.ret = IF ops < PoolSlots THEN SlotAddress(ops) ELSE nullptr ]_vars

\* N mallocs have taken the N slots and one more has returned null
C38_Witness ==
    /\ _type_id = 3 /\ _is_valid /\ PoolSlots >= 2
    /\ ops = PoolSlots + 1 /\ _free_blocks_count = 0
    /\ last.op = "malloc" /\ last.ret = nullptr
    /\ {l.p : l \in BagToSet(live)} = {SlotAddress(k) : k \in 0..(PoolSlots - 1)}

\* with the guard on, the free count is the length of the free list and at most N
PoolCountMatchesList ==
    _free_blocks_count = Len(PoolFreeList) /\ _free_blocks_count <= PoolSlots

\* C39: the pool's free(p) returns false and leaves the free list and the
\* free count alone when p is outside [aligned_base, aligned_end) or
\* (p - aligned_base) mod B # 0; with the guard on, free_blocks_count() is the
\* number of nodes on the free list and never exceeds N
C39_PoolFreeValidation ==
    [][ (_type_id = 3 /\ _is_valid)
        => /\ (last'.op = "free"
                 /\ (~InRegion(last'.arg)
                        \/ (last'.arg - start_aligned_address) % _block_size # 0))
              => (last'.ret = FALSE
                     /\ UNCHANGED <<mem, _free_list_root, _free_blocks_count>>)
           /\ _guard_against_double_free
              => (PoolCountMatchesList /\ PoolCountMatchesList') ]_vars

\* C40: a pool whose aligned region holds no whole block (N = 0) is
\* constructed without a write of a slot link, its construction returns, its
\* free list is empty and every malloc returns null
C40_PoolNoWholeSlot ==
    (_type_id = 3 /\ _is_valid /\ compute_blocks_count(_block_size) = 0)
    => /\ ~hung /\ ~oob
       /\ ops = 0 => \A a \in Arena : mem[a] \in Fills
       /\ ops = 0 => _free_list_root = nullptr
       /\ last.op = "malloc" => last.ret = nullptr

====
